---- MODULE Spec2Model ----
(***************************************************************************)
(* A model of web-streams-utils (src/src/index.ts).                        *)
(*                                                                         *)
(* Five state machines share the module, each with its own variables and   *)
(* its own specification:                                                  *)
(*   SpecMerge / SpecMergeFair   merge(...streams), its inputs, its        *)
(*                               consumer;                                 *)
(*   SpecStage / SpecStageFair   a source written into one TransformStream *)
(*                               stage (take, skip, batch, compact, map,   *)
(*                               filter, tap, scan, reduce, append, or the *)
(*                               two piped stages of flatMap), and a       *)
(*                               consumer;                                 *)
(*   SpecInterval                interval(period), its timer, a consumer;  *)
(*   SpecIterable /              fromIterable(iterable), and toArray or a  *)
(*   SpecIterableFair            cancelling consumer on the stream it      *)
(*                               returns;                                  *)
(*   SpecPipelines /             several stage instances at once: two      *)
(*   SpecPipelinesFair           pipelines side by side, each through its  *)
(*                               own take, skip or batch, or one pipeline  *)
(*                               through filter, map and take in a row.    *)
(* The stream runtime (queues, locks, close/error/terminate) is modelled   *)
(* only as far as the library's calls into it need.                        *)
(***************************************************************************)
EXTENDS Integers, Sequences, FiniteSets, TLC

\* ------------------------------------------------------------------ bounds
\* merge: the number of input streams, up to
MaxInputs == 2
\* merge: the chunks the inputs produce, all together, up to
MaxChunks == 4
\* stage: the chunks the source produces, up to
MaxLen == 4
\* stage: the argument of take, skip, batch ranges over -1..MaxArg
MaxArg == 3
\* stage: writes queued on the writable side, up to
MaxPending == 2
\* interval: timer callbacks run, up to
MaxTicks == 6
\* fromIterable: the items of the iterable, up to
MaxItems == 3
\* fromIterable: the items are drawn from 1..MaxItem
MaxItem == 2

\* ------------------------------------------------------------------ values
NoError == <<>>
TypeError == <<"TypeError">>
InputError(i) == <<"input", i>>
IterationError == <<"iteration">>

VARIABLES
  \* ---- merge
  inputs,      \* i -> "open" | "closed" | "errored": the state of input stream i
  cursor,      \* i -> number of chunks input i has produced, all read by merge
  reader,      \* i -> "locked" | "released": the reader merge took on input i
  task,        \* i -> "reading" | "resolved" | "rejected": the per-source async fn
  all,         \* [state, error]: the promise returned by Promise.all
  settled,     \* "pending" | "closed" | "caught": which branch of start() ran
  out,         \* [state, queue, closeRequested, error]: the merged ReadableStream
  cancelled,   \* the consumer cancelled the merged stream
  delivered,   \* chunks the consumer has read from the merged stream
  firstError,  \* history: the error of the first input that errored
  \* ---- one TransformStream stage between a source and a consumer
  stage,       \* "take" | "skip" | "batch" | "compact" | "map" | "filter" |
               \* "tap" | "flatMap" | "scan" | "reduce" | "append": the
               \* constructor that built the stage
  arg,         \* its argument: limit, count, size, seed or value (0 for a
               \* stage without one)
  count,       \* take: `let count = 0`
  skipped,     \* skip: `let skipped = 0`
  buffer,      \* batch: `let buffer = []`
  src,         \* "open" | "closed" | "errored" | "cancelled": the piped source
  writable,    \* "writable" | "closed" | "errored": the stage's writable side
  pending,     \* the chunks written and not yet transformed, oldest first
  rd,          \* [state, queue, closeRequested]: the stage's readable side
  reading,     \* the consumer has a read() pending (the pull signal)
  result,      \* chunks the consumer has received
  emitted,     \* history: every chunk the stage enqueued
  calls,       \* history: invocations of transform()
  written,     \* history: the number of chunks the writable side accepted
  fed,         \* history: the chunks the writable side accepted, in order
  inflight,    \* the chunks whose user function was called and has not settled
  failed,      \* history: the user function threw or rejected
  acc,         \* scan, reduce: [value, seen], the accumulator and whether a
               \* chunk went into it
  link,        \* flatMap: [state, queue], mapper.readable piped into flattener:
               \* "open" | "closed" | "errored", and the arrays the pipe has
               \* read from mapper and flattener has not transformed yet
  \* ---- interval
  timer,       \* "active" | "cleared": the setInterval handle
  counter,     \* `let counter = 0`
  ticker,      \* [state, queue]: the ReadableStream interval returns
  taken,       \* chunks the consumer has read from it
  lateTicks,   \* history: timer callbacks run after the stream was cancelled
  \* ---- fromIterable and toArray
  iterable,    \* [items, throws]: what the iterable yields, and how it ends
  nexts,       \* calls of the iterator's next() the for-await loop has made
  loop,        \* "awaiting" | "closed" | "caught": where start() stands
  stream,      \* [state, queue, closeRequested, error]: the stream fromIterable returns
  dropped,     \* a consumer cancelled the stream
  piped,       \* toArray(stream) was called: pipeTo holds the stream
  array,       \* toArray: `const array = []`
  promise,     \* [state, value, error]: the promise toArray returns
  arrived,     \* history: the chunks pipeTo handed to write(), in order
  \* ---- several stage instances, p ranging over the instances
  layout,      \* "pair" | "chain": side by side, or piped one into the next
  kinds,       \* p -> the constructor that built instance p
  params,      \* p -> its argument
  cells,       \* the closure states the constructor calls created:
               \* cell -> [count, skipped, buffer]
  feeds,       \* p -> [state, sent]: the source piped into p, for the first
               \* instance of a pipeline
  sinks,       \* p -> [state, queue]: the writable side of p
  calling,     \* p -> the chunks whose user function has not settled
  sides,       \* p -> [state, queue, closeRequested]: the readable side of p
  wants,       \* p -> the consumer of p has a read() pending
  outputs,     \* p -> the chunks the consumer of p received
  enqueued,    \* history: p -> every chunk p enqueued
  runs         \* history: p -> invocations of p's transform

mergeVars ==
  <<inputs, cursor, reader, task, all, settled, out, cancelled, delivered, firstError>>

stageVars ==
  <<stage, arg, count, skipped, buffer, src, writable, pending, rd, reading,
    result, emitted, calls, written, fed, inflight, failed, acc, link>>

intervalVars == <<timer, counter, ticker, taken, lateTicks>>

iterableVars ==
  <<iterable, nexts, loop, stream, dropped, piped, array, promise, arrived>>

pipelineVars ==
  <<layout, kinds, params, cells, feeds, sinks, calling, sides, wants, outputs,
    enqueued, runs>>

vars == <<mergeVars, stageVars, intervalVars, iterableVars, pipelineVars>>

\* The variables of a machine the specification at hand does not run.
MergeIdle ==
  /\ inputs = <<>> /\ cursor = <<>> /\ reader = <<>> /\ task = <<>>
  /\ all = [state |-> "pending", error |-> NoError]
  /\ settled = "pending"
  /\ out = [state |-> "readable", queue |-> <<>>, closeRequested |-> FALSE, error |-> NoError]
  /\ cancelled = FALSE /\ delivered = <<>> /\ firstError = NoError

StageIdle ==
  /\ stage = "none" /\ arg = 0 /\ count = 0 /\ skipped = 0 /\ buffer = <<>>
  /\ src = "open" /\ writable = "writable" /\ pending = <<>>
  /\ rd = [state |-> "readable", queue |-> <<>>, closeRequested |-> FALSE]
  /\ reading = FALSE /\ result = <<>> /\ emitted = <<>> /\ calls = 0 /\ written = 0
  /\ fed = <<>> /\ inflight = {} /\ failed = FALSE
  /\ acc = [value |-> 0, seen |-> FALSE]
  /\ link = [state |-> "none", queue |-> <<>>]

IntervalIdle ==
  /\ timer = "cleared" /\ counter = 0
  /\ ticker = [state |-> "readable", queue |-> <<>>]
  /\ taken = <<>> /\ lateTicks = 0

IterableIdle ==
  /\ iterable = [items |-> <<>>, throws |-> FALSE] /\ nexts = 0 /\ loop = "closed"
  /\ stream = [state |-> "closed", queue |-> <<>>, closeRequested |-> TRUE, error |-> NoError]
  /\ dropped = FALSE /\ piped = FALSE /\ array = <<>>
  /\ promise = [state |-> "none", value |-> <<>>, error |-> NoError]
  /\ arrived = <<>>

PipelinesIdle ==
  /\ layout = "none" /\ kinds = <<>> /\ params = <<>> /\ cells = <<>>
  /\ feeds = <<>> /\ sinks = <<>> /\ calling = <<>> /\ sides = <<>>
  /\ wants = <<>> /\ outputs = <<>> /\ enqueued = <<>> /\ runs = <<>>

\* ------------------------------------------------------------------ merge
Streams == DOMAIN inputs

\* The number of chunks the first n inputs have produced.
RECURSIVE Produced(_)
Produced(n) == IF n = 0 THEN 0 ELSE cursor[n] + Produced(n - 1)

\* The k-th chunk of input i.
Chunk(i, k) == <<i, k>>

\* ReadableStreamDefaultControllerCanCloseOrEnqueue, as enqueue() and close() test it.
CanCloseOrEnqueue(o) == o.state = "readable" /\ ~o.closeRequested

\* A queue that hands out the newest chunk first.
EnqueueFront(o, value) == [o EXCEPT !.queue = <<value>> \o @]

\* controller.enqueue(value) on a stream that can take it.
Enqueue(o, value) == [o EXCEPT !.queue = Append(@, value)]

\* controller.close(): closes at once when nothing is queued.
Close(o) ==
  IF o.queue = <<>> THEN [o EXCEPT !.state = "closed", !.closeRequested = TRUE]
  ELSE [o EXCEPT !.closeRequested = TRUE]

\* controller.error(e): a no-op unless the stream is readable.
Error(o, e) ==
  IF o.state = "readable"
  THEN [o EXCEPT !.state = "errored", !.queue = <<>>, !.error = e]
  ELSE o

\* Promise.race in place of Promise.all: settles with the first task to settle.
PromiseAllRace(prev, tasks, outcome, err) ==
  IF prev.state # "pending" THEN prev
  ELSE IF outcome = "rejected" THEN [state |-> "rejected", error |-> err]
  ELSE [state |-> "resolved", error |-> NoError]

\* Promise.allSettled-like: waits for every task before it rejects.
PromiseAllSettled(prev, tasks, outcome, err) ==
  IF prev.state # "pending" THEN prev
  ELSE IF \E j \in DOMAIN tasks : tasks[j] = "reading" THEN prev
  ELSE IF outcome = "rejected" THEN [state |-> "rejected", error |-> err]
  ELSE [state |-> "resolved", error |-> NoError]

\* Promise.all over the per-source tasks: rejects with the first rejection,
\* resolves once every task has resolved.
PromiseAll(prev, tasks, outcome, err) ==
  IF prev.state # "pending" THEN prev
  ELSE IF outcome = "rejected" THEN [state |-> "rejected", error |-> err]
  ELSE IF \A j \in DOMAIN tasks : tasks[j] = "resolved"
       THEN [state |-> "resolved", error |-> NoError]
  ELSE prev

\* The per-source async function ends: `finally { reader.releaseLock() }`, then
\* its promise settles and Promise.all sees it.
TaskEnds(i, outcome, err) ==
  /\ reader' = [reader EXCEPT ![i] = "released"]
  /\ task' = [task EXCEPT ![i] = outcome]
  /\ all' = PromiseAll(all, task', outcome, err)

InitMerge ==
  /\ \E n \in 0..MaxInputs : inputs = [i \in 1..n |-> "open"]
  /\ cursor = [i \in Streams |-> 0]
  /\ reader = [i \in Streams |-> "locked"]
  /\ task = [i \in Streams |-> "reading"]
  /\ all = PromiseAll([state |-> "pending", error |-> NoError], task, "resolved", NoError)
  /\ settled = "pending"
  /\ out = [state |-> "readable", queue |-> <<>>, closeRequested |-> FALSE, error |-> NoError]
  /\ cancelled = FALSE
  /\ delivered = <<>>
  /\ firstError = NoError
  /\ StageIdle /\ IntervalIdle /\ IterableIdle /\ PipelinesIdle

\* Input i produces a chunk and `await reader.read()` yields it: enqueue it and
\* read again (an input may stay silent for ever: nothing obliges it). When the
\* merged stream cannot take it, enqueue throws and the task ends rejected.
ReadChunk(i) ==
  /\ task[i] = "reading"
  /\ inputs[i] = "open"
  /\ Produced(Len(inputs)) < MaxChunks
  /\ cursor' = [cursor EXCEPT ![i] = @ + 1]
  /\ IF CanCloseOrEnqueue(out)
     THEN /\ out' = Enqueue(out, Chunk(i, cursor[i] + 1))
          /\ UNCHANGED <<reader, task, all>>
     ELSE /\ TaskEnds(i, "rejected", TypeError)
          /\ UNCHANGED out
  /\ UNCHANGED <<inputs, settled, cancelled, delivered, firstError>>
  /\ UNCHANGED <<stageVars, intervalVars, iterableVars, pipelineVars>>

\* Input i closes and `await reader.read()` yields done: break, release the
\* lock, resolve.
ReadDone(i) ==
  /\ task[i] = "reading"
  /\ inputs[i] = "open"
  /\ inputs' = [inputs EXCEPT ![i] = "closed"]
  /\ TaskEnds(i, "resolved", NoError)
  /\ UNCHANGED <<cursor, settled, out, cancelled, delivered, firstError>>
  /\ UNCHANGED <<stageVars, intervalVars, iterableVars, pipelineVars>>

\* Input i errors and `await reader.read()` rejects.
ReadError(i) ==
  /\ task[i] = "reading"
  /\ inputs[i] = "open"
  /\ inputs' = [inputs EXCEPT ![i] = "errored"]
  /\ TaskEnds(i, "rejected", InputError(i))
  /\ firstError' = IF firstError = NoError THEN InputError(i) ELSE firstError
  /\ UNCHANGED <<cursor, settled, out, cancelled, delivered>>
  /\ UNCHANGED <<stageVars, intervalVars, iterableVars, pipelineVars>>

\* MergeClose without the `await` on Promise.all: closes while tasks still read.
MergeCloseNoAwait ==
  /\ settled = "pending"
  /\ all.state # "rejected"
  /\ settled' = "closed"
  /\ out' = IF CanCloseOrEnqueue(out) THEN Close(out) ELSE Error(out, TypeError)
  /\ UNCHANGED <<inputs, cursor, reader, task, all, cancelled, delivered, firstError>>
  /\ UNCHANGED <<stageVars, intervalVars, iterableVars, pipelineVars>>

\* After `await Promise.all(...)` resolved: controller.close(); when close()
\* throws, the catch block calls controller.error with what it threw.
MergeClose ==
  /\ settled = "pending"
  /\ all.state = "resolved"
  /\ settled' = "closed"
  /\ out' = IF CanCloseOrEnqueue(out) THEN Close(out) ELSE Error(out, TypeError)
  /\ UNCHANGED <<inputs, cursor, reader, task, all, cancelled, delivered, firstError>>
  /\ UNCHANGED <<stageVars, intervalVars, iterableVars, pipelineVars>>

\* After `await Promise.all(...)` rejected: catch (error) { controller.error(error) }.
MergeCatch ==
  /\ settled = "pending"
  /\ all.state = "rejected"
  /\ settled' = "caught"
  /\ out' = Error(out, all.error)
  /\ UNCHANGED <<inputs, cursor, reader, task, all, cancelled, delivered, firstError>>
  /\ UNCHANGED <<stageVars, intervalVars, iterableVars, pipelineVars>>

\* The consumer reads one queued chunk; the stream closes when a requested
\* close finds the queue drained.
ConsumerRead ==
  /\ out.state = "readable"
  /\ out.queue # <<>>
  /\ delivered' = Append(delivered, Head(out.queue))
  /\ out' = IF Len(out.queue) = 1 /\ out.closeRequested
            THEN [out EXCEPT !.queue = <<>>, !.state = "closed"]
            ELSE [out EXCEPT !.queue = Tail(@)]
  /\ UNCHANGED <<inputs, cursor, reader, task, all, settled, cancelled, firstError>>
  /\ UNCHANGED <<stageVars, intervalVars, iterableVars, pipelineVars>>

\* The consumer cancels the merged stream. merge's underlying source has no
\* cancel method, so nothing reaches the inputs.
ConsumerCancel ==
  /\ out.state = "readable"
  /\ cancelled' = TRUE
  /\ out' = [out EXCEPT !.state = "closed", !.queue = <<>>]
  /\ UNCHANGED <<inputs, cursor, reader, task, all, settled, delivered, firstError>>
  /\ UNCHANGED <<stageVars, intervalVars, iterableVars, pipelineVars>>

NextMerge ==
  \/ \E i \in Streams : ReadChunk(i)
  \/ \E i \in Streams : ReadDone(i)
  \/ \E i \in Streams : ReadError(i)
  \/ MergeClose
  \/ MergeCatch
  \/ ConsumerRead
  \/ ConsumerCancel

SpecMerge == InitMerge /\ [][NextMerge]_vars

\* The continuation of start() after Promise.all settles (one branch or the
\* other) runs as a microtask; nothing obliges an input to produce or the
\* consumer to read.
SpecMergeFair == SpecMerge /\ WF_vars(MergeClose \/ MergeCatch)

\* ---------------------------------------------------------- merge: claims
\* Every chunk the inputs have produced.
AllChunks == UNION {{Chunk(i, k) : k \in 1..cursor[i]} : i \in Streams}

Occurrences(seq, x) == Cardinality({j \in DOMAIN seq : seq[j] = x})

\* seq holds every element of set exactly once and nothing else.
IsPermutationOf(seq, set) ==
  /\ Len(seq) = Cardinality(set)
  /\ \A x \in set : Occurrences(seq, x) = 1

AllInputsClosed == \A i \in Streams : inputs[i] = "closed"

\* C1: when every input closed without error and the consumer did not cancel,
\* the closed merged output has delivered each chunk of each input exactly
\* once (a permutation of the union of the inputs); and on the way there,
\* while the output is live, what was delivered plus what is queued is exactly
\* the chunks read so far, none lost and none duplicated.
C1_ExactlyOnce ==
  /\ (AllInputsClosed /\ ~cancelled /\ out.state = "closed")
       => IsPermutationOf(delivered, AllChunks)
  /\ (~cancelled /\ out.state = "readable")
       => IsPermutationOf(delivered \o out.queue, AllChunks)

C1_Witness ==
  /\ AllInputsClosed /\ ~cancelled /\ out.state = "closed"
  /\ Cardinality(Streams) = 2
  /\ Len(delivered) = MaxChunks /\ cursor[1] >= 2 /\ cursor[2] >= 2
  /\ delivered[1][1] = 2 /\ delivered[2][1] = 1

\* merge has closed its output: controller.close() was called (the stream
\* reports closed once the consumer has drained what is queued).
CloseRequested == out.closeRequested

\* C2: merge closes its output only when every input has reported
\* end-of-stream, never while one is still open; once all have, it does close
\* it (or the consumer has cancelled it, which closes it too); with zero
\* inputs that is the first thing that happens, and no chunk is ever emitted.
C2_ClosesAfterAllInputs ==
  /\ [](CloseRequested => AllInputsClosed)
  /\ [](Streams = {} => delivered = <<>> /\ out.queue = <<>>)
  /\ (AllInputsClosed ~> (CloseRequested \/ out.state = "closed"))

C2_Witness ==
  /\ CloseRequested /\ out.state = "readable"
  /\ Cardinality(Streams) = 2
  /\ cursor[1] = 0 /\ cursor[2] >= 1

\* C3: once an input has errored (and the consumer has not cancelled), the
\* merged output is errored with the error of the first input that errored, or
\* the one step that makes it so, start()'s catch branch, is already enabled;
\* the output is never closed from then on; and with nothing but that
\* continuation scheduled (no input obliged to produce or to finish) the
\* output does become errored.
C3_FirstErrorWins ==
  /\ []((firstError # NoError /\ ~cancelled) =>
          /\ IF settled = "pending"
             THEN out.state = "readable" /\ all.error = firstError /\ ENABLED MergeCatch
             ELSE out.state = "errored" /\ out.error = firstError
          /\ ~CloseRequested)
  /\ ((firstError # NoError) ~> (out.state = "errored" \/ cancelled))

C3_Witness ==
  /\ out.state = "errored" /\ out.error = InputError(2)
  /\ Cardinality(Streams) = 2
  /\ inputs[1] = "open" /\ task[1] = "reading"

\* The high-water mark of the merged stream: merge passes no queuing strategy
\* to `new ReadableStream`, so the runtime's default applies.
HighWaterMark == 1

\* C12: the chunks queued in the merged output never exceed its high-water
\* mark: merge reads from an input only when the output has room.
C12_QueueBounded == Len(out.queue) <= HighWaterMark

\* The chunks of seq that input i produced, in the order of seq.
FromInput(seq, i) ==
  LET OfInput(c) == c[1] = i IN SelectSeq(seq, OfInput)

\* C27: in the output of merge (what the consumer received, then what is
\* queued for it) the chunks of one input appear in the order the input
\* produced them, the first, the second, and so on without a gap, however the
\* read loops interleave.
C27_PerSourceOrder ==
  \A i \in Streams :
    LET mine == FromInput(delivered \o out.queue, i)
    IN mine = [k \in 1..Len(mine) |-> Chunk(i, k)]

C27_Witness ==
  /\ delivered = <<Chunk(2, 1), Chunk(1, 1), Chunk(1, 2), Chunk(2, 2)>>
  /\ out.state = "closed" /\ ~cancelled

\* start() has no step of its own left to take: what happens next is up to
\* the inputs and the consumer.
StartIdle == settled # "pending" \/ all.state = "pending"

\* C4: once the merged output is errored or cancelled and merge has done what
\* it can do by itself, no input's reader is still locked, whatever the inputs
\* do or do not do afterwards.
C4_LocksReleased ==
  ((out.state = "errored" \/ cancelled) /\ StartIdle)
    => \A i \in Streams : reader[i] = "released"


\* ------------------------------------------------- a stage in a pipeline
\* source.pipeThrough(stage) read by a consumer. The source produces the chunks
\* 1, 2, 3, ... and may close, error or stay silent at any point.
Stages ==
  {"take", "skip", "batch", "compact", "map", "filter", "tap", "flatMap",
   "scan", "reduce", "append"}

\* The stages whose transform awaits a user function; flatMap's is its mapper.
AsyncStages == {"map", "filter", "tap", "flatMap", "scan", "reduce"}
Args == -1..MaxArg

\* The seeds scan and reduce are built with, and the value append is.
Seeds == {0, 10}
Appended == {9}

\* The arguments a stage is built with; compact, map, filter, tap and flatMap
\* have none that is a value of the model.
ArgsOf(stg) ==
  CASE stg \in {"take", "skip", "batch"} -> Args
    [] stg \in {"scan", "reduce"} -> Seeds
    [] stg = "append" -> Appended
    [] OTHER -> {0}

\* The chunks fed to compact stand for the JavaScript values null, undefined,
\* 0, false, '' and 1.
Null == "null"
Undefined == "undefined"
Values == {Null, Undefined, "0", "false", "", "1"}

\* The chunk the source produces after n chunks: the numbers 1, 2, ... for
\* take, skip and batch, any value for compact.
Source(n) == IF stage = "compact" THEN Values ELSE {n + 1}

\* The first n chunks of the source, in arrival order.
Input(n) == [k \in 1..n |-> k]

Min(a, b) == IF a < b THEN a ELSE b

\* What one call of a stage's transform (or flush) does: the chunks it
\* enqueues, whether it calls controller.terminate(), and its closure state.
Outcome(emit, terminate, c, s, b) ==
  [emit |-> emit, terminate |-> terminate, count |-> c, skipped |-> s, buffer |-> b]

\* The closure state of the stage at hand: what its transform and flush see
\* of `let count`, `let skipped`, `let buffer`.
Closure == [count |-> count, skipped |-> skipped, buffer |-> buffer]

\* A take that lets one chunk more through before it terminates.
takeInOffByOne(self, limit, chunk) ==
  LET forward == self.count <= limit
      n == IF forward THEN self.count + 1 ELSE self.count
  IN Outcome(IF forward THEN <<chunk>> ELSE <<>>, n > limit, n, self.skipped, self.buffer)

\* take(limit).transform(chunk, controller) on the closure state self.
takeIn(self, limit, chunk) ==
  LET forward == self.count < limit
      n == IF forward THEN self.count + 1 ELSE self.count
  IN Outcome(IF forward THEN <<chunk>> ELSE <<>>, n >= limit, n, self.skipped, self.buffer)

\* skip(count).transform(chunk, controller) on the closure state self; cnt is
\* skip's argument `count`.
skipIn(self, cnt, chunk) ==
  IF self.skipped < cnt
  THEN Outcome(<<>>, FALSE, self.count, self.skipped + 1, self.buffer)
  ELSE Outcome(<<chunk>>, FALSE, self.count, self.skipped, self.buffer)

\* batch(size).transform(chunk, controller) on the closure state self.
batchIn(self, size, chunk) ==
  LET pushed == Append(self.buffer, chunk)
  IN IF Len(pushed) >= size
     THEN Outcome(<<pushed>>, FALSE, self.count, self.skipped, <<>>)
     ELSE Outcome(<<>>, FALSE, self.count, self.skipped, pushed)

\* batch(size).flush(controller) on the closure state self: enqueues the
\* buffer and leaves it as it is.
batchFlushIn(self) ==
  Outcome(IF Len(self.buffer) > 0 THEN <<self.buffer>> ELSE <<>>, FALSE,
          self.count, self.skipped, self.buffer)

\* take with `count <= limit`: forwards one chunk too many.
takeOffByOne(limit, chunk) ==
  LET forward == count <= limit
      n == IF forward THEN count + 1 ELSE count
  IN Outcome(IF forward THEN <<chunk>> ELSE <<>>, n >= limit, n, skipped, buffer)

\* take without the terminate() call.
takeNoTerminate(limit, chunk) ==
  LET forward == count < limit
      n == IF forward THEN count + 1 ELSE count
  IN Outcome(IF forward THEN <<chunk>> ELSE <<>>, FALSE, n, skipped, buffer)

\* take(limit).transform(chunk, controller)
take(limit, chunk) == takeIn(Closure, limit, chunk)

\* skip with `skipped <= count`: drops one chunk too many.
skipOffByOne(cnt, chunk) ==
  IF skipped <= cnt
  THEN Outcome(<<>>, FALSE, count, skipped + 1, buffer)
  ELSE Outcome(<<chunk>>, FALSE, count, skipped, buffer)

\* skip(count).transform(chunk, controller); cnt is skip's argument `count`.
skip(cnt, chunk) == skipIn(Closure, cnt, chunk)

\* batch with `buffer.length > size`: batches come out one chunk too long.
batchOffByOne(size, chunk) ==
  LET pushed == Append(buffer, chunk)
  IN IF Len(pushed) > size
     THEN Outcome(<<pushed>>, FALSE, count, skipped, <<>>)
     ELSE Outcome(<<>>, FALSE, count, skipped, pushed)

\* batch(size).transform(chunk, controller)
batch(size, chunk) == batchIn(Closure, size, chunk)

\* batch(size).flush(controller): enqueues the buffer and leaves it as it is.
batchFlush == batchFlushIn(Closure)

\* compact with a truthiness test, `if (chunk)`.
compactTruthy(chunk) ==
  IF chunk \notin {Null, Undefined, "0", "false", ""}
  THEN Outcome(<<chunk>>, FALSE, count, skipped, buffer)
  ELSE Outcome(<<>>, FALSE, count, skipped, buffer)

\* compact().transform(chunk, controller)
compact(chunk) ==
  IF chunk # Null /\ chunk # Undefined
  THEN Outcome(<<chunk>>, FALSE, count, skipped, buffer)
  ELSE Outcome(<<>>, FALSE, count, skipped, buffer)

\* The user functions handed to map and filter; the one handed to tap has a
\* side effect only.
fn(chunk) == chunk * 2
predicate(chunk) == chunk % 2 = 0

\* The user function handed to flatMap: an array of chunk % 3 items, so that
\* arrays of several items, of one and of none occur.
split(chunk) == [j \in 1..(chunk % 3) |-> 10 * chunk + j]

\* map(fn).transform(chunk, controller), once fn(chunk) has resolved with
\* value: `controller.enqueue(await fn(chunk))`.
map(value) == Outcome(<<value>>, FALSE, count, skipped, buffer)

\* A flatten that enqueues the first item of the array only.
flattenFirst(chunk) ==
  Outcome(IF chunk = <<>> THEN <<>> ELSE <<Head(chunk)>>, FALSE, count, skipped, buffer)

\* flatten().transform(chunk, controller): `chunk.forEach(item =>
\* controller.enqueue(item))`.
flatten(chunk) == Outcome(chunk, FALSE, count, skipped, buffer)

\* filter(predicate).transform(chunk, controller), once predicate(chunk) has
\* resolved.
filter(chunk) ==
  IF predicate(chunk)
  THEN Outcome(<<chunk>>, FALSE, count, skipped, buffer)
  ELSE Outcome(<<>>, FALSE, count, skipped, buffer)

\* tap(fn).transform(chunk, controller), once fn(chunk) has resolved.
tap(chunk) == Outcome(<<chunk>>, FALSE, count, skipped, buffer)

\* The user function handed to scan and reduce.
reducer(a, b) == a + b

\* scan(fn, seed): the accumulator after fn(acc, chunk) has resolved; every
\* other stage has none.
Accumulate(chunk) ==
  IF stage \in {"scan", "reduce"}
  THEN [value |-> reducer(acc.value, chunk), seen |-> TRUE]
  ELSE acc

\* A scan that emits the accumulator it had before the chunk.
scanBefore(chunk) == Outcome(<<acc.value>>, FALSE, count, skipped, buffer)

\* scan(fn, seed).transform: `acc = fn(acc, chunk)`, and the new accumulator
\* is emitted.
scan(chunk) == Outcome(<<Accumulate(chunk).value>>, FALSE, count, skipped, buffer)

\* reduce(fn, seed).transform: the same accumulation, nothing emitted.
reduce(chunk) == Outcome(<<>>, FALSE, count, skipped, buffer)

\* A reduce that emits its accumulator on every close.
reduceFlushAlways == Outcome(<<acc.value>>, FALSE, count, skipped, buffer)

\* reduce(fn, seed), on input close: the final accumulator, once, unless no
\* chunk arrived.
reduceFlush ==
  Outcome(IF acc.seen THEN <<acc.value>> ELSE <<>>, FALSE, count, skipped, buffer)

\* append(value).transform: forwards the chunk.
append(chunk) == Outcome(<<chunk>>, FALSE, count, skipped, buffer)

\* An append that emits its value only after a chunk went through.
appendFlushNonEmpty ==
  Outcome(IF calls > 0 THEN <<arg>> ELSE <<>>, FALSE, count, skipped, buffer)

\* append(value), on input close: one more chunk, the value.
appendFlush == Outcome(<<arg>>, FALSE, count, skipped, buffer)

\* The stage's transform callback on one chunk.
Transformed(chunk) ==
  CASE stage = "take" -> take(arg, chunk)
    [] stage = "skip" -> skip(arg, chunk)
    [] stage = "batch" -> batch(arg, chunk)
    [] stage = "compact" -> compact(chunk)
    [] stage = "map" -> map(fn(chunk))
    [] stage = "flatMap" -> map(split(chunk))
    [] stage = "filter" -> filter(chunk)
    [] stage = "tap" -> tap(chunk)
    [] stage = "scan" -> scan(chunk)
    [] stage = "reduce" -> reduce(chunk)
    [] stage = "append" -> append(chunk)

\* The stage's flush callback; a stage that defines none enqueues nothing.
Flushed ==
  CASE stage = "batch" -> batchFlush
    [] stage = "reduce" -> reduceFlush
    [] stage = "append" -> appendFlush
    [] OTHER -> Outcome(<<>>, FALSE, count, skipped, buffer)

\* The readable side after the stage enqueued `emit` and then, with `closing`,
\* the runtime (or terminate()) closed it: a pending read() takes the first
\* chunk, the rest is queued; a close with nothing queued closes at once and
\* settles a pending read() with done.
Emit(emit, closing) ==
  LET direct == reading /\ emit # <<>>
      queue == rd.queue \o (IF direct THEN Tail(emit) ELSE emit)
  IN /\ result' = IF direct THEN Append(result, Head(emit)) ELSE result
     /\ rd' = [rd EXCEPT !.queue = queue,
                         !.closeRequested = @ \/ closing,
                         !.state = IF closing /\ queue = <<>> THEN "closed" ELSE @]
     /\ reading' = (reading /\ emit = <<>> /\ ~closing)
     /\ emitted' = emitted \o emit

\* flatMap: `mapper.readable.pipeThrough(flattener)`, and the stage handed out
\* is { readable: flattener.readable, writable: mapper.writable }.
Piped == stage = "flatMap"

\* The readable side of the TransformStream the source writes to is being
\* pulled: by the consumer's read(), or in flatMap by the internal pipe, which
\* reads from mapper as long as flattener's writable side (high-water mark 1)
\* holds no array.
Pull ==
  IF Piped THEN link.state = "open" /\ link.queue = <<>> ELSE reading

\* That readable side can take an enqueue.
CanEnqueue ==
  IF Piped THEN link.state = "open" ELSE CanCloseOrEnqueue(rd)

\* Its enqueue: to the consumer, or in flatMap to the internal pipe, whose
\* pending read takes the array and writes it to flattener.
MapperEmit(emit) ==
  IF Piped
  THEN /\ link' = [link EXCEPT !.queue = @ \o emit]
       /\ UNCHANGED <<rd, reading, result, emitted>>
  ELSE /\ Emit(emit, FALSE)
       /\ UNCHANGED link

\* The readable side is closed (closing) or errored by the runtime when the
\* writable side was closed or aborted, or the transform failed; in flatMap
\* that is mapper.readable, and the internal pipe carries it on.
MapperEnd(emit, closing) ==
  IF Piped
  THEN /\ link' = [link EXCEPT !.state = IF link.state # "open" THEN @
                                          ELSE IF closing THEN "closed" ELSE "errored"]
       /\ UNCHANGED <<rd, reading, result, emitted>>
  ELSE /\ IF closing
          THEN Emit(emit, TRUE)
          ELSE /\ rd' = IF rd.state = "readable"
                        THEN [rd EXCEPT !.state = "errored", !.queue = <<>>]
                        ELSE rd
               /\ reading' = FALSE
               /\ UNCHANGED <<result, emitted>>
       /\ UNCHANGED link

InitStage ==
  /\ stage \in Stages
  /\ arg \in ArgsOf(stage)
  /\ count = 0 /\ skipped = 0 /\ buffer = <<>>
  /\ src = "open" /\ writable = "writable" /\ pending = <<>>
  /\ rd = [state |-> "readable", queue |-> <<>>, closeRequested |-> FALSE]
  /\ reading = FALSE /\ result = <<>> /\ emitted = <<>> /\ calls = 0 /\ written = 0
  /\ fed = <<>> /\ inflight = {} /\ failed = FALSE
  /\ acc = [value |-> IF stage \in {"scan", "reduce"} THEN arg ELSE 0, seen |-> FALSE]
  /\ link = [state |-> IF stage = "flatMap" THEN "open" ELSE "none", queue |-> <<>>]
  /\ MergeIdle /\ IntervalIdle /\ IterableIdle /\ PipelinesIdle

\* The next chunk of the source is written to the stage. A pipe writes one
\* chunk at a time (high-water mark 1); a writer that does not wait for
\* `ready` may have several writes queued.
PipeWrite ==
  /\ src = "open" /\ writable = "writable"
  /\ Len(pending) < MaxPending
  /\ written < MaxLen
  /\ \E chunk \in Source(written) :
       /\ pending' = Append(pending, chunk)
       /\ fed' = Append(fed, chunk)
  /\ written' = written + 1
  /\ UNCHANGED <<stage, arg, count, skipped, buffer, src, writable, rd, reading,
                 result, emitted, calls, inflight, failed, link, acc>>
  /\ UNCHANGED <<mergeVars, intervalVars, iterableVars, pipelineVars>>

\* The runtime calls transform(chunk, controller) on the oldest queued write
\* once the consumer pulls. terminate() closes the readable side and errors
\* the writable side, which rejects the writes still queued.
Transform ==
  /\ stage \notin AsyncStages
  /\ pending # <<>> /\ writable = "writable" /\ reading
  /\ LET r == Transformed(Head(pending))
     IN /\ Emit(r.emit, r.terminate)
        /\ count' = r.count /\ skipped' = r.skipped /\ buffer' = r.buffer
        /\ writable' = IF r.terminate THEN "errored" ELSE writable
        /\ pending' = IF r.terminate THEN <<>> ELSE Tail(pending)
  /\ calls' = calls + 1
  /\ UNCHANGED <<stage, arg, src, written, fed, inflight, failed, link, acc>>
  /\ UNCHANGED <<mergeVars, intervalVars, iterableVars, pipelineVars>>

\* A transform that does not wait for the user function: its promise is
\* settled as soon as it has called it.
TransformNotAwaited == TRUE

\* The transform of map, filter and tap is an async function that awaits the
\* user function: the promise it returned for the last chunk is settled only
\* when no call of the user function is pending. The runtime starts the next
\* write only then.
TransformSettled == inflight = {}

\* The runtime calls transform(chunk, controller) of map, filter or tap on
\* the oldest queued write once the consumer pulls: the user function is called
\* with the chunk and the transform waits at its `await`.
TransformCall ==
  /\ stage \in AsyncStages
  /\ pending # <<>> /\ writable = "writable" /\ Pull
  /\ TransformSettled
  /\ inflight' = inflight \cup {Head(pending)}
  /\ pending' = Tail(pending)
  /\ calls' = calls + 1
  /\ UNCHANGED <<stage, arg, count, skipped, buffer, src, writable, rd, reading,
                 result, emitted, written, fed, failed, link, acc>>
  /\ UNCHANGED <<mergeVars, intervalVars, iterableVars, pipelineVars>>

\* The awaited user function resolves: the transform goes on to its enqueue
\* (which throws on a readable side that is no longer readable) and ends.
TransformResolve ==
  /\ \E chunk \in inflight :
       /\ inflight' = inflight \ {chunk}
       /\ acc' = Accumulate(chunk)
       /\ IF CanEnqueue
          THEN LET r == Transformed(chunk)
               IN /\ MapperEmit(r.emit)
                  /\ count' = r.count /\ skipped' = r.skipped /\ buffer' = r.buffer
          ELSE UNCHANGED <<rd, reading, result, emitted, count, skipped, buffer, link>>
  /\ UNCHANGED <<stage, arg, src, writable, pending, calls, written, fed, failed>>
  /\ UNCHANGED <<mergeVars, intervalVars, iterableVars, pipelineVars>>

\* A stage that catches the failure of the user function and goes on with the
\* next chunk.
TransformRejectCaught ==
  /\ \E chunk \in inflight : inflight' = inflight \ {chunk}
  /\ failed' = TRUE
  /\ UNCHANGED <<stage, arg, count, skipped, buffer, src, writable, pending, rd,
                 reading, result, emitted, calls, written, fed, link, acc>>
  /\ UNCHANGED <<mergeVars, intervalVars, iterableVars, pipelineVars>>

\* The awaited user function throws or rejects: nothing in the transform
\* catches it, its promise rejects, and the runtime errors both sides of the
\* stage: the readable side drops its queue, the writable side rejects the
\* writes still queued.
TransformReject ==
  /\ \E chunk \in inflight : inflight' = inflight \ {chunk}
  /\ failed' = TRUE
  /\ MapperEnd(<<>>, FALSE)
  /\ writable' = "errored"
  /\ pending' = <<>>
  /\ UNCHANGED <<stage, arg, count, skipped, buffer, src, calls, written, fed, acc>>
  /\ UNCHANGED <<mergeVars, intervalVars, iterableVars, pipelineVars>>

\* The source ends; the writable side is closed once every write is done:
\* the runtime calls flush(controller), then closes the readable side.
PipeClose ==
  /\ src = "open" /\ writable = "writable" /\ pending = <<>> /\ inflight = {}
  /\ src' = "closed"
  /\ writable' = "closed"
  /\ LET r == Flushed
     IN /\ MapperEnd(r.emit, TRUE)
        /\ count' = r.count /\ skipped' = r.skipped /\ buffer' = r.buffer
  /\ UNCHANGED <<stage, arg, pending, calls, written, fed, inflight, failed, acc>>
  /\ UNCHANGED <<mergeVars, intervalVars, iterableVars, pipelineVars>>

\* An abort that runs flush before it errors the readable side.
PipeAbortFlushes ==
  /\ src = "open" /\ writable = "writable" /\ pending = <<>> /\ inflight = {}
  /\ src' = "errored"
  /\ writable' = "errored"
  /\ LET r == Flushed
     IN /\ result' = IF reading /\ r.emit # <<>> THEN Append(result, Head(r.emit)) ELSE result
        /\ emitted' = emitted \o r.emit
        /\ count' = r.count /\ skipped' = r.skipped /\ buffer' = r.buffer
  /\ rd' = [rd EXCEPT !.state = "errored", !.queue = <<>>]
  /\ reading' = FALSE
  /\ UNCHANGED <<stage, arg, pending, calls, written, fed, inflight, failed, link, acc>>
  /\ UNCHANGED <<mergeVars, intervalVars, iterableVars, pipelineVars>>

\* The source errors; the pipe aborts the writable side once every write is
\* done: the readable side is errored, flush is not called.
PipeAbort ==
  /\ src = "open" /\ writable = "writable" /\ pending = <<>> /\ inflight = {}
  /\ src' = "errored"
  /\ writable' = "errored"
  /\ MapperEnd(<<>>, FALSE)
  /\ UNCHANGED <<stage, arg, count, skipped, buffer, pending, calls, written,
                 fed, inflight, failed, acc>>
  /\ UNCHANGED <<mergeVars, intervalVars, iterableVars, pipelineVars>>

\* flatMap: flattener transforms the array the internal pipe wrote to it, once
\* the consumer pulls.
FlattenerTransform ==
  /\ Piped
  /\ link.queue # <<>> /\ reading /\ CanCloseOrEnqueue(rd)
  /\ LET r == flatten(Head(link.queue))
     IN /\ Emit(r.emit, FALSE)
        /\ count' = r.count /\ skipped' = r.skipped /\ buffer' = r.buffer
  /\ link' = [link EXCEPT !.queue = Tail(@)]
  /\ UNCHANGED <<stage, arg, src, writable, pending, calls, written, fed,
                 inflight, failed, acc>>
  /\ UNCHANGED <<mergeVars, intervalVars, iterableVars, pipelineVars>>

\* flatMap: mapper.readable is closed and every array the pipe read has been
\* written: the pipe closes flattener.writable, and flattener, which has no
\* flush, closes its readable side.
FlattenerClose ==
  /\ Piped
  /\ link.state = "closed" /\ link.queue = <<>>
  /\ CanCloseOrEnqueue(rd)
  /\ Emit(<<>>, TRUE)
  /\ UNCHANGED <<stage, arg, count, skipped, buffer, src, writable, pending,
                 calls, written, fed, inflight, failed, link, acc>>
  /\ UNCHANGED <<mergeVars, intervalVars, iterableVars, pipelineVars>>

\* flatMap: mapper.readable is errored and every array the pipe read has been
\* written: the pipe aborts flattener.writable, which errors its readable side.
FlattenerAbort ==
  /\ Piped
  /\ link.state = "errored" /\ link.queue = <<>>
  /\ rd.state = "readable"
  /\ rd' = [rd EXCEPT !.state = "errored", !.queue = <<>>]
  /\ reading' = FALSE
  /\ UNCHANGED <<stage, arg, count, skipped, buffer, src, writable, pending,
                 result, emitted, calls, written, fed, inflight, failed, link, acc>>
  /\ UNCHANGED <<mergeVars, intervalVars, iterableVars, pipelineVars>>

\* The writable side was errored by terminate(): the pipe cancels the source.
PipeCancel ==
  /\ src = "open" /\ writable = "errored"
  /\ src' = "cancelled"
  /\ UNCHANGED <<stage, arg, count, skipped, buffer, writable, pending, rd,
                 reading, result, emitted, calls, written, fed, inflight, failed, link, acc>>
  /\ UNCHANGED <<mergeVars, intervalVars, iterableVars, pipelineVars>>

\* The consumer reads: it takes a queued chunk, or leaves a read() pending.
StageRead ==
  /\ rd.state = "readable" /\ ~reading
  /\ IF rd.queue # <<>>
     THEN /\ result' = Append(result, Head(rd.queue))
          /\ rd' = IF Len(rd.queue) = 1 /\ rd.closeRequested
                   THEN [rd EXCEPT !.queue = <<>>, !.state = "closed"]
                   ELSE [rd EXCEPT !.queue = Tail(@)]
          /\ UNCHANGED reading
     ELSE /\ reading' = TRUE
          /\ UNCHANGED <<result, rd>>
  /\ UNCHANGED <<stage, arg, count, skipped, buffer, src, writable, pending,
                 emitted, calls, written, fed, inflight, failed, link, acc>>
  /\ UNCHANGED <<mergeVars, intervalVars, iterableVars, pipelineVars>>

NextStage ==
  \/ PipeWrite
  \/ Transform
  \/ TransformCall
  \/ TransformResolve
  \/ TransformReject
  \/ FlattenerTransform
  \/ FlattenerClose
  \/ FlattenerAbort
  \/ PipeClose
  \/ PipeAbort
  \/ PipeCancel
  \/ StageRead

SpecStage == InitStage /\ [][NextStage]_vars

\* The internal pipe of flatMap is a loop of promise jobs: once mapper.readable
\* has ended and nothing is left to write, its close or abort of flattener runs.
SpecStageFair == SpecStage /\ WF_vars(FlattenerClose \/ FlattenerAbort)

\* ---------------------------------------------------------- stage: claims
\* What the consumer received plus what is queued for it is what the stage
\* enqueued, in the same order (until an error discards the queue).
InOrderDelivery == rd.state # "errored" => result \o rd.queue = emitted

\* C6: take(limit) with limit >= 0 has forwarded exactly the first
\* min(limit, chunks processed) chunks, in arrival order, never more than
\* limit; when the input closes before the limit is reached every chunk was
\* forwarded and the output is closed, not errored.
C6_TakeFirstN ==
  (stage = "take" /\ arg >= 0) =>
    /\ emitted = Input(Min(arg, calls))
    /\ Len(emitted) <= arg
    /\ InOrderDelivery
    /\ src = "closed" =>
         /\ emitted = Input(written)
         /\ rd.closeRequested /\ rd.state # "errored" /\ writable = "closed"

C6_Witness ==
  /\ stage = "take" /\ arg = 2
  /\ result = <<1, 2>> /\ rd.state = "closed"
  /\ src = "cancelled"

\* take(limit) has forwarded its limit-th chunk.
LimitReached == stage = "take" /\ arg >= 1 /\ Len(emitted) >= arg

\* C7: for limit >= 1, in every state in which take(limit) has forwarded its
\* limit-th chunk the output is already closed (close requested, and closed as
\* soon as nothing is queued), the writable side is errored and holds no
\* write, and transform has run exactly limit times; from then on transform
\* is not invoked and no chunk is accepted, whether or not the input has more
\* chunks or has closed.
C7_TerminatesAtLimit ==
  /\ [](LimitReached =>
          /\ rd.closeRequested
          /\ rd.queue = <<>> => rd.state = "closed"
          /\ writable = "errored" /\ pending = <<>>
          /\ calls = arg)
  /\ [][LimitReached => calls' = calls /\ written' = written]_vars

C7_Witness ==
  /\ stage = "take" /\ arg = 3
  /\ Len(emitted) = 3 /\ rd.state = "closed"
  /\ written = 4 /\ src = "open"

\* C8: take(0) has closed its output by the time the consumer waits for a
\* chunk, without any chunk having arrived and without the input closing.
C8_TakeZeroClosesAtOnce ==
  (stage = "take" /\ arg = 0 /\ reading) => rd.closeRequested

\* Arguments the specification calls configuration misuse.
Misuse ==
  \/ stage = "batch" /\ arg <= 0
  \/ stage \in {"take", "skip"} /\ arg < 0

\* C9: a stage built with a misused argument never accepts a chunk, never runs
\* its transform and never emits.
C9_MisuseRejected ==
  Misuse => (written = 0 /\ calls = 0 /\ emitted = <<>>)

RECURSIVE Flatten(_)
Flatten(batches) ==
  IF batches = <<>> THEN <<>> ELSE Head(batches) \o Flatten(Tail(batches))

\* C10: for n >= 1, the batches batch(n) emitted, concatenated, are the input
\* in arrival order (followed by what is still buffered while the input is
\* open); every batch has exactly n elements except a last, shorter, non-empty
\* one that only the input's close produces, once, exactly when chunks
\* remained buffered; an empty input emits no batch.
C10_BatchPartition ==
  (stage = "batch" /\ arg >= 1) =>
    /\ \A j \in 1..Len(emitted) :
         \/ Len(emitted[j]) = arg
         \/ /\ j = Len(emitted) /\ writable = "closed"
            /\ Len(emitted[j]) >= 1 /\ Len(emitted[j]) < arg
    /\ writable # "closed" =>
         /\ Flatten(emitted) \o buffer = Input(calls)
         /\ Len(buffer) < arg
    /\ writable = "closed" =>
         /\ Flatten(emitted) = Input(written)
         /\ Len(emitted) = (written + arg - 1) \div arg
    /\ InOrderDelivery

C10_Witness ==
  /\ stage = "batch" /\ arg = 2
  /\ result = <<<<1, 2>>, <<3>>>> /\ rd.state = "closed"

\* C17: skip(count) with count >= 0 has dropped exactly the first
\* min(count, chunks processed) chunks and forwarded every later one, unchanged
\* and in arrival order: skip(0) forwards every chunk, and a count of at least
\* the length of the input leaves the output empty when the input closes.
C17_SkipDropsFirst ==
  (stage = "skip" /\ arg >= 0) =>
    /\ skipped = Min(arg, calls)
    /\ emitted = SubSeq(Input(calls), skipped + 1, calls)
    /\ arg = 0 => emitted = Input(calls)
    /\ InOrderDelivery
    /\ src = "closed" =>
         /\ emitted = SubSeq(Input(written), Min(arg, written) + 1, written)
         /\ arg >= written => emitted = <<>>
         /\ rd.closeRequested

C17_Witness ==
  /\ stage = "skip" /\ arg = 2
  /\ result = <<3, 4>> /\ rd.state = "closed"

\* Neither null nor undefined.
Present(chunk) == chunk \notin {Null, Undefined}

\* C18: compact has forwarded exactly the processed chunks that are neither
\* null nor undefined (0, false and the empty string included), unchanged and
\* in their relative order; when the input closes that is every such chunk of
\* the input.
C18_CompactRemovesNullish ==
  stage = "compact" =>
    /\ emitted = SelectSeq(SubSeq(fed, 1, calls), Present)
    /\ InOrderDelivery
    /\ src = "closed" => emitted = SelectSeq(fed, Present) /\ rd.closeRequested

C18_Witness ==
  /\ stage = "compact"
  /\ fed = <<"0", Null, "false", "">>
  /\ result = <<"0", "false", "">> /\ rd.state = "closed"

\* C15: once the user function of map, filter or tap has thrown or rejected,
\* the output of the stage is errored and stays as it is: it is not closed,
\* nothing more is enqueued or delivered, and the user function is not called
\* for the chunks that follow.
C15_CallbackFailureErrors ==
  /\ [](failed /\ ~Piped => /\ rd.state = "errored" /\ ~rd.closeRequested /\ rd.queue = <<>>
                  /\ writable = "errored" /\ inflight = {} /\ pending = <<>>)
  /\ [][failed /\ ~Piped => /\ rd' = rd /\ emitted' = emitted /\ result' = result
                  /\ calls' = calls /\ inflight' = inflight]_vars
  /\ [][failed' /\ ~failed /\ ~Piped => rd.state = "readable" /\ rd'.state = "errored"]_vars

C15_Witness ==
  /\ stage = "map" /\ failed
  /\ rd.state = "errored"
  /\ emitted = <<2>> /\ calls = 2 /\ written = 4 /\ src = "cancelled"

\* What an async stage has enqueued after n chunks went through it.
RECURSIVE Expected(_)
Expected(n) ==
  IF n = 0 THEN <<>> ELSE Expected(n - 1) \o Transformed(n).emit

\* C16: map, filter and tap have at most one call of the user function
\* pending; a call starts only when the one before has settled; and what the
\* stage enqueued is what the chunks that went through it produce, in input
\* order.
C16_OneInFlight ==
  /\ [](stage \in {"map", "filter", "tap"} =>
          /\ Cardinality(inflight) <= 1
          /\ emitted = Expected(calls - Cardinality(inflight) - (IF failed THEN 1 ELSE 0))
          /\ InOrderDelivery)
  /\ [][calls' > calls /\ stage \in {"map", "filter", "tap"} => inflight = {}]_vars

C16_Witness ==
  /\ stage = "filter"
  /\ calls = 3 /\ inflight = {3} /\ pending = <<4>>
  /\ emitted = <<2>>

\* What map(split) piped into flatten() makes of the first n chunks: the items
\* of split(1), ..., split(n), each array in its own order.
SplitAll(n) == Flatten([k \in 1..n |-> split(k)])

\* The arrays that went through both stages of flatMap.
Flattened ==
  calls - Cardinality(inflight) - (IF failed THEN 1 ELSE 0) - Len(link.queue)

\* C20: flatMap(fn) emits what map(fn) piped into flatten() emits: the items
\* of each fn(chunk) in array order, chunk after chunk, nothing for an empty
\* array; its output is closed only after the input closed, then holding the
\* items of every chunk, and it is errored, never closed, once fn has failed.
C20_FlatMapIsMapThenFlatten ==
  /\ [](Piped =>
          /\ emitted = SplitAll(Flattened)
          /\ InOrderDelivery
          /\ rd.closeRequested => src = "closed" /\ ~failed /\ emitted = SplitAll(written)
          /\ rd.state = "errored" => failed \/ src = "errored"
          /\ failed => ~rd.closeRequested /\ writable = "errored")
  /\ (Piped /\ src = "closed" /\ link.queue = <<>>) ~> rd.closeRequested
  /\ (Piped /\ failed /\ link.queue = <<>>) ~> (rd.state = "errored")

C20_Witness ==
  /\ Piped /\ written = 4
  /\ result = <<11, 21, 22, 41>> /\ rd.state = "closed"

\* C26: when the input of a stage errors, its output is errored by that very
\* step and stays errored, never closed; flush does not run: nothing is
\* enqueued or delivered by the step or after it, and batch(n) keeps its
\* buffered chunks, every batch it emitted being a full one.
C26_InputErrorNoFlush ==
  /\ [](src = "errored" /\ ~Piped =>
          /\ rd.state = "errored" /\ ~rd.closeRequested /\ rd.queue = <<>>
          /\ writable = "errored")
  /\ [](src = "errored" /\ stage = "batch" /\ arg >= 1 =>
          /\ \A j \in 1..Len(emitted) : Len(emitted[j]) = arg
          /\ Flatten(emitted) \o buffer = Input(calls))
  /\ [][src' = "errored" /\ ~Piped =>
          /\ emitted' = emitted /\ result' = result /\ buffer' = buffer
          /\ (src = "open" => rd.state = "readable")
          /\ (src = "errored" => rd' = rd)]_vars

\* The left fold of the first n chunks of the input, starting from seed.
RECURSIVE Fold(_, _)
Fold(seed, n) == IF n = 0 THEN seed ELSE reducer(Fold(seed, n - 1), n)

\* The chunks that went through an async stage and its user function.
Settled == calls - Cardinality(inflight) - (IF failed THEN 1 ELSE 0)

C24_ScanRunningFold ==
  stage = "scan" =>
    /\ emitted = [i \in 1..Settled |-> Fold(arg, i)]
    /\ InOrderDelivery
    /\ writable = "closed" => Len(emitted) = written /\ rd.closeRequested

C24_Witness ==
  /\ stage = "scan" /\ arg = 0
  /\ result = <<1, 3, 6, 10>> /\ rd.state = "closed"

\* C25: append(value) forwards every chunk unchanged and in order; when the
\* input closes it emits value once, after the forwarded chunks, and then the
\* output closes; over an empty input the output is value alone.
C25_AppendOnClose ==
  stage = "append" =>
    /\ writable # "closed" => emitted = Input(calls)
    /\ writable = "closed" =>
         /\ emitted = Append(Input(written), arg)
         /\ rd.closeRequested
    /\ InOrderDelivery

C25_Witness ==
  /\ stage = "append" /\ written = 0
  /\ result = <<9>> /\ rd.state = "closed"

C26_Witness ==
  /\ stage = "batch" /\ arg = 2
  /\ src = "errored" /\ rd.state = "errored"
  /\ buffer = <<3>> /\ result = <<<<1, 2>>>>

\* ---------------------------------------------------------------- interval
\* What cancelling the stream does to the timer. The runtime calls the
\* underlying source's cancel() method; the object interval passes has only
\* start(), and the function start() returns is taken as start's (awaited)
\* result, never called: the handle stays as it is.
CancelAlgorithm(handle) == handle

InitInterval ==
  /\ timer = "active"
  /\ counter = 0
  /\ ticker = [state |-> "readable", queue |-> <<>>]
  /\ taken = <<>>
  /\ lateTicks = 0
  /\ MergeIdle /\ StageIdle /\ IterableIdle /\ PipelinesIdle

\* The timer fires: controller.enqueue(counter++). On a stream that is no
\* longer readable enqueue throws, after counter was incremented.
Tick ==
  /\ timer = "active"
  /\ counter < MaxTicks
  /\ counter' = counter + 1
  /\ IF ticker.state = "readable"
     THEN /\ ticker' = [ticker EXCEPT !.queue = Append(@, counter)]
          /\ UNCHANGED lateTicks
     ELSE /\ lateTicks' = lateTicks + 1
          /\ UNCHANGED ticker
  /\ UNCHANGED <<timer, taken>>
  /\ UNCHANGED <<mergeVars, stageVars, iterableVars, pipelineVars>>

\* The consumer reads one queued value.
IntervalRead ==
  /\ ticker.state = "readable"
  /\ ticker.queue # <<>>
  /\ taken' = Append(taken, Head(ticker.queue))
  /\ ticker' = [ticker EXCEPT !.queue = Tail(@)]
  /\ UNCHANGED <<timer, counter, lateTicks>>
  /\ UNCHANGED <<mergeVars, stageVars, iterableVars, pipelineVars>>

\* The consumer (a downstream take that reached its limit, say) cancels.
IntervalCancel ==
  /\ ticker.state = "readable"
  /\ ticker' = [ticker EXCEPT !.state = "closed", !.queue = <<>>]
  /\ timer' = CancelAlgorithm(timer)
  /\ UNCHANGED <<counter, taken, lateTicks>>
  /\ UNCHANGED <<mergeVars, stageVars, iterableVars, pipelineVars>>

NextInterval ==
  \/ Tick
  \/ IntervalRead
  \/ IntervalCancel

SpecInterval == InitInterval /\ [][NextInterval]_vars

\* C5: once the stream interval returned has been cancelled its timer is
\* cleared: no timer callback runs (and so no enqueue is attempted) after the
\* cancellation.
C5_TimerClearedOnCancel ==
  ticker.state = "closed" => (timer = "cleared" /\ lateTicks = 0)

\* --------------------------------------------------- fromIterable, toArray
\* The iterables handed to fromIterable: the items it yields, then either the
\* end of the iteration or a throw. `for await` drives a synchronous iterable
\* through the same next()/await protocol as an asynchronous one.
Items == UNION {[1..n -> 1..MaxItem] : n \in 0..MaxItems}
Iterables == [items : Items, throws : BOOLEAN]

\* The items the loop has taken from the iterable: one per next() call, as
\* long as the iterable has items.
ItemsTaken == Min(nexts, Len(iterable.items))

\* `new ReadableStream({ async start(controller) {...} })`: the constructor
\* calls start(), which runs up to its first await: the loop has made its
\* first next() call when fromIterable returns.
InitIterable ==
  /\ iterable \in Iterables
  /\ nexts = 1
  /\ loop = "awaiting"
  /\ stream = [state |-> "readable", queue |-> <<>>, closeRequested |-> FALSE, error |-> NoError]
  /\ dropped = FALSE /\ piped = FALSE /\ array = <<>>
  /\ promise = [state |-> "none", value |-> <<>>, error |-> NoError]
  /\ arrived = <<>>
  /\ MergeIdle /\ StageIdle /\ IntervalIdle /\ PipelinesIdle

\* The awaited next() yields an item: `controller.enqueue(item)`, then the loop
\* calls next() again. On a stream that cannot take the item enqueue throws a
\* TypeError: the loop is left (the iterator is returned, not asked again) and
\* the catch block calls controller.error.
IterItem ==
  /\ loop = "awaiting"
  /\ nexts <= Len(iterable.items)
  /\ IF CanCloseOrEnqueue(stream)
     THEN /\ stream' = Enqueue(stream, iterable.items[nexts])
          /\ nexts' = nexts + 1
          /\ loop' = loop
     ELSE /\ stream' = Error(stream, TypeError)
          /\ loop' = "caught"
          /\ nexts' = nexts
  /\ UNCHANGED <<iterable, dropped, piped, array, promise, arrived>>
  /\ UNCHANGED <<mergeVars, stageVars, intervalVars, pipelineVars>>

\* The awaited next() reports the end: the loop ends and `controller.close()`
\* runs, still inside the try block.
IterDone ==
  /\ loop = "awaiting"
  /\ nexts > Len(iterable.items)
  /\ ~iterable.throws
  /\ IF CanCloseOrEnqueue(stream)
     THEN stream' = Close(stream) /\ loop' = "closed"
     ELSE stream' = Error(stream, TypeError) /\ loop' = "caught"
  /\ UNCHANGED <<iterable, nexts, dropped, piped, array, promise, arrived>>
  /\ UNCHANGED <<mergeVars, stageVars, intervalVars, pipelineVars>>

\* The iteration ends in close() instead of error().
IterThrowCloses ==
  /\ loop = "awaiting"
  /\ nexts > Len(iterable.items)
  /\ iterable.throws
  /\ stream' = IF CanCloseOrEnqueue(stream) THEN Close(stream) ELSE stream
  /\ loop' = "closed"
  /\ UNCHANGED <<iterable, nexts, dropped, piped, array, promise, arrived>>
  /\ UNCHANGED <<mergeVars, stageVars, intervalVars, pipelineVars>>

\* The awaited next() throws: `catch (error) { controller.error(error) }`.
IterThrow ==
  /\ loop = "awaiting"
  /\ nexts > Len(iterable.items)
  /\ iterable.throws
  /\ stream' = Error(stream, IterationError)
  /\ loop' = "caught"
  /\ UNCHANGED <<iterable, nexts, dropped, piped, array, promise, arrived>>
  /\ UNCHANGED <<mergeVars, stageVars, intervalVars, pipelineVars>>

\* A consumer cancels the stream it holds (a stream piped by toArray is locked
\* and cannot be cancelled). fromIterable's source has no cancel method.
IterCancel ==
  /\ ~piped
  /\ stream.state = "readable"
  /\ stream' = [stream EXCEPT !.state = "closed", !.queue = <<>>]
  /\ dropped' = TRUE
  /\ UNCHANGED <<iterable, nexts, loop, piped, array, promise, arrived>>
  /\ UNCHANGED <<mergeVars, stageVars, intervalVars, pipelineVars>>

\* toArray(stream): `const array = []`, then pipeTo starts and the async
\* function waits for it.
toArray ==
  /\ ~piped
  /\ piped' = TRUE
  /\ array' = <<>>
  /\ promise' = [promise EXCEPT !.state = "pending"]
  /\ UNCHANGED <<iterable, nexts, loop, stream, dropped, arrived>>
  /\ UNCHANGED <<mergeVars, stageVars, intervalVars, pipelineVars>>

\* unshift in place of push.
writeUnshift(arr, chunk) == <<chunk>> \o arr

\* The sink's `write(chunk) { array.push(chunk) }`.
write(arr, chunk) == Append(arr, chunk)

\* pipeTo reads the next chunk and hands it to the sink's write().
PipeToWrite ==
  /\ piped
  /\ promise.state = "pending"
  /\ stream.state = "readable"
  /\ stream.queue # <<>>
  /\ array' = write(array, Head(stream.queue))
  /\ arrived' = Append(arrived, Head(stream.queue))
  /\ stream' = IF Len(stream.queue) = 1 /\ stream.closeRequested
               THEN [stream EXCEPT !.queue = <<>>, !.state = "closed"]
               ELSE [stream EXCEPT !.queue = Tail(@)]
  /\ UNCHANGED <<iterable, nexts, loop, dropped, piped, promise>>
  /\ UNCHANGED <<mergeVars, stageVars, intervalVars, pipelineVars>>

\* pipeTo finds the stream closed and resolves: `return array`.
PipeToResolve ==
  /\ piped
  /\ promise.state = "pending"
  /\ stream.state = "closed"
  /\ promise' = [promise EXCEPT !.state = "resolved", !.value = array]
  /\ UNCHANGED <<iterable, nexts, loop, stream, dropped, piped, array, arrived>>
  /\ UNCHANGED <<mergeVars, stageVars, intervalVars, pipelineVars>>

\* A toArray that swallows the failure and returns what it has collected.
PipeToRejectSwallowed ==
  /\ piped
  /\ promise.state = "pending"
  /\ stream.state = "errored"
  /\ promise' = [promise EXCEPT !.state = "resolved", !.value = array]
  /\ UNCHANGED <<iterable, nexts, loop, stream, dropped, piped, array, arrived>>
  /\ UNCHANGED <<mergeVars, stageVars, intervalVars, pipelineVars>>

\* pipeTo finds the stream errored and rejects with the stored error: the
\* `await` in toArray throws it, `return array` is never reached.
PipeToReject ==
  /\ piped
  /\ promise.state = "pending"
  /\ stream.state = "errored"
  /\ promise' = [promise EXCEPT !.state = "rejected", !.error = stream.error]
  /\ UNCHANGED <<iterable, nexts, loop, stream, dropped, piped, array, arrived>>
  /\ UNCHANGED <<mergeVars, stageVars, intervalVars, pipelineVars>>

NextIterable ==
  \/ IterItem
  \/ IterDone
  \/ IterThrow
  \/ IterCancel
  \/ toArray
  \/ PipeToWrite
  \/ PipeToResolve
  \/ PipeToReject

SpecIterable == InitIterable /\ [][NextIterable]_vars

\* Every continuation that is ready to run is run: the loop's awaits and the
\* pipe's reads and settlements are promise jobs.
SpecIterableFair ==
  /\ SpecIterable
  /\ WF_vars(IterItem \/ IterDone \/ IterThrow)
  /\ WF_vars(PipeToWrite \/ PipeToResolve \/ PipeToReject)

\* C11: fromIterable is lazy: while no consumer reads the stream, no item has
\* been taken from the iterable.
C11_Lazy == ~piped => ItemsTaken = 0

\* The iteration has thrown: the next() call after the last item was made and
\* the loop is over.
Thrown == iterable.throws /\ nexts > Len(iterable.items) /\ loop # "awaiting"

\* C13: when the iteration throws after the k items of the iterable, the
\* stream is errored with the thrown error (unless a consumer cancelled it
\* before), close() is never called on it, and from then on no next() call is
\* made and nothing is enqueued.
C13_ThrowErrorsStream ==
  /\ [](Thrown /\ ~dropped => stream.state = "errored" /\ stream.error = IterationError)
  /\ [](iterable.throws => ~stream.closeRequested /\ (stream.state = "closed" => dropped))
  /\ [](iterable.throws => nexts <= Len(iterable.items) + 1)
  /\ [][Thrown => nexts' = nexts /\ Len(stream'.queue) <= Len(stream.queue)]_vars

C13_Witness ==
  /\ Thrown /\ stream.state = "errored" /\ stream.error = IterationError
  /\ Len(iterable.items) >= 2
  /\ Len(arrived) >= 1

\* C14: the promise of toArray resolves only on a closed stream, and then with
\* the chunks the sink received, in the order it received them; on an errored
\* stream it never resolves, and it rejects with the error of the stream.
C14_ToArraySettles ==
  /\ [](promise.state = "resolved" => stream.state = "closed" /\ promise.value = arrived)
  /\ [](stream.state = "errored" => promise.state # "resolved")
  /\ [](promise.state = "rejected" =>
          stream.state = "errored" /\ promise.error = stream.error)
  /\ (piped /\ stream.state = "errored") ~> (promise.state = "rejected")
  /\ (piped /\ stream.state = "closed") ~> (promise.state = "resolved")

C14_Witness ==
  /\ promise.state = "rejected" /\ promise.error = IterationError
  /\ Len(arrived) >= 1

\* C19: toArray(fromIterable(xs)) resolves with exactly the items of xs, in
\* order, for every iterable that ends without throwing; the stream is closed
\* once the iteration is over.
C19_RoundTrip ==
  /\ [](promise.state = "resolved" /\ ~dropped =>
          /\ promise.value = iterable.items
          /\ ~iterable.throws
          /\ stream.state = "closed")
  /\ [](loop = "closed" => stream.closeRequested)
  /\ (piped /\ ~dropped /\ ~iterable.throws) ~> (promise.state = "resolved")
  /\ (~iterable.throws /\ ~dropped) ~> (stream.closeRequested \/ dropped)

C19_Witness ==
  /\ promise.state = "resolved" /\ ~dropped
  /\ Len(promise.value) >= 2
  /\ promise.value[1] # promise.value[2]

\* ------------------------------------------------ several stage instances
Instances == DOMAIN kinds

\* The instance the readable side of p is piped into, the instance piped into
\* p; 0 stands for the consumer and for the source.
Down(p) == IF layout = "chain" /\ p < Len(kinds) THEN p + 1 ELSE 0
Up(p) == IF layout = "chain" /\ p > 1 THEN p - 1 ELSE 0

\* One closure state for every instance, whatever made it.
CellShared(p) == 1

\* The closure state of instance p: `let count = 0`, `let skipped = 0`,
\* `let buffer = []` stand inside the constructor functions, so every call
\* creates its own.
CellOf(p) == p

FreshCell == [count |-> 0, skipped |-> 0, buffer |-> <<>>]

\* transform(chunk, controller) of instance p, on its closure state.
Applied(p, chunk) ==
  LET self == cells[CellOf(p)]
  IN CASE kinds[p] = "take" -> takeIn(self, params[p], chunk)
       [] kinds[p] = "skip" -> skipIn(self, params[p], chunk)
       [] kinds[p] = "batch" -> batchIn(self, params[p], chunk)
       [] kinds[p] = "filter" ->
            Outcome(filter(chunk).emit, FALSE, self.count, self.skipped, self.buffer)
       [] kinds[p] = "map" ->
            Outcome(map(fn(chunk)).emit, FALSE, self.count, self.skipped, self.buffer)

\* flush(controller) of instance p; a stage that defines none enqueues nothing.
FlushedOf(p) ==
  LET self == cells[CellOf(p)]
  IN IF kinds[p] = "batch" THEN batchFlushIn(self)
     ELSE Outcome(<<>>, FALSE, self.count, self.skipped, self.buffer)

\* The closure state of p after a transform or flush with outcome r.
SetCell(p, r) ==
  cells' = [cells EXCEPT ![CellOf(p)] =
              [count |-> r.count, skipped |-> r.skipped, buffer |-> r.buffer]]

\* The writable side of d takes the next chunk of a pipe: its queue (high-water
\* mark 1) is empty and no write is under way.
HasRoom(d) ==
  sinks[d].state = "writable" /\ sinks[d].queue = <<>> /\ calling[d] = {}

\* The readable side of p is being pulled: a read() of the consumer, or of the
\* pipe into the next instance, is pending.
Pulled(p) ==
  /\ sides[p].queue = <<>>
  /\ IF Down(p) = 0 THEN wants[p] ELSE HasRoom(Down(p))

\* The readable side of p after p enqueued `emit` and then, with `closing`, was
\* closed: a pending read() of the consumer takes the first chunk, the rest is
\* queued.
Deliver(p, emit, closing) ==
  LET direct == Down(p) = 0 /\ wants[p] /\ emit # <<>>
      queue == sides[p].queue \o (IF direct THEN Tail(emit) ELSE emit)
  IN /\ sides' = [sides EXCEPT ![p] =
                    [state |-> IF closing /\ queue = <<>> THEN "closed" ELSE @.state,
                     queue |-> queue,
                     closeRequested |-> @.closeRequested \/ closing]]
     /\ outputs' = [outputs EXCEPT ![p] = IF direct THEN Append(@, Head(emit)) ELSE @]
     /\ wants' = [wants EXCEPT ![p] = @ /\ emit = <<>> /\ ~closing]
     /\ enqueued' = [enqueued EXCEPT ![p] = @ \o emit]

\* `fromIterable(...).pipeThrough(a)` twice, or
\* `fromIterable(...).pipeThrough(filter(p)).pipeThrough(map(f)).pipeThrough(take(k))`:
\* every constructor was called, nothing has flowed.
InitPipelines ==
  /\ \/ /\ layout = "pair"
        /\ \E k \in {"take", "skip", "batch"} : kinds = <<k, k>>
        /\ params \in [1..2 -> 1..MaxArg]
     \/ /\ layout = "chain"
        /\ kinds = <<"filter", "map", "take">>
        /\ \E k \in 0..MaxArg : params = <<0, 0, k>>
  /\ cells = [p \in DOMAIN kinds |-> FreshCell]
  /\ feeds = [p \in DOMAIN kinds |->
                [state |-> IF Up(p) = 0 THEN "open" ELSE "none", sent |-> 0]]
  /\ sinks = [p \in DOMAIN kinds |-> [state |-> "writable", queue |-> <<>>]]
  /\ calling = [p \in DOMAIN kinds |-> {}]
  /\ sides = [p \in DOMAIN kinds |->
                [state |-> "readable", queue |-> <<>>, closeRequested |-> FALSE]]
  /\ wants = [p \in DOMAIN kinds |-> FALSE]
  /\ outputs = [p \in DOMAIN kinds |-> <<>>]
  /\ enqueued = [p \in DOMAIN kinds |-> <<>>]
  /\ runs = [p \in DOMAIN kinds |-> 0]
  /\ MergeIdle /\ StageIdle /\ IntervalIdle /\ IterableIdle

\* The pipe from the source writes its next chunk to p.
FeedWrite(p) ==
  /\ Up(p) = 0 /\ feeds[p].state = "open"
  /\ feeds[p].sent < MaxLen
  /\ HasRoom(p)
  /\ feeds' = [feeds EXCEPT ![p].sent = @ + 1]
  /\ sinks' = [sinks EXCEPT ![p].queue = Append(@, feeds[p].sent + 1)]
  /\ UNCHANGED <<layout, kinds, params, cells, calling, sides, wants, outputs,
                 enqueued, runs>>
  /\ UNCHANGED <<mergeVars, stageVars, intervalVars, iterableVars>>

\* The runtime calls the transform of take, skip or batch on the queued write
\* once the readable side is pulled. terminate() closes the readable side and
\* errors the writable side.
StageTransform(p) ==
  /\ kinds[p] \notin AsyncStages
  /\ sinks[p].state = "writable" /\ sinks[p].queue # <<>>
  /\ Pulled(p)
  /\ LET r == Applied(p, Head(sinks[p].queue))
     IN /\ Deliver(p, r.emit, r.terminate)
        /\ SetCell(p, r)
        /\ sinks' = [sinks EXCEPT ![p] =
                       IF r.terminate THEN [state |-> "errored", queue |-> <<>>]
                       ELSE [@ EXCEPT !.queue = Tail(@)]]
  /\ runs' = [runs EXCEPT ![p] = @ + 1]
  /\ UNCHANGED <<layout, kinds, params, feeds, calling>>
  /\ UNCHANGED <<mergeVars, stageVars, intervalVars, iterableVars>>

\* The runtime calls the transform of filter or map: the user function is
\* called and the transform waits at its `await`.
StageCall(p) ==
  /\ kinds[p] \in AsyncStages
  /\ sinks[p].state = "writable" /\ sinks[p].queue # <<>>
  /\ Pulled(p)
  /\ calling[p] = {}
  /\ calling' = [calling EXCEPT ![p] = {Head(sinks[p].queue)}]
  /\ sinks' = [sinks EXCEPT ![p].queue = Tail(@)]
  /\ runs' = [runs EXCEPT ![p] = @ + 1]
  /\ UNCHANGED <<layout, kinds, params, cells, feeds, sides, wants, outputs, enqueued>>
  /\ UNCHANGED <<mergeVars, stageVars, intervalVars, iterableVars>>

\* The awaited user function resolves and the transform goes on to its
\* enqueue, which throws on a readable side that was cancelled meanwhile.
StageResolve(p) ==
  /\ \E chunk \in calling[p] :
       /\ calling' = [calling EXCEPT ![p] = @ \ {chunk}]
       /\ IF CanCloseOrEnqueue(sides[p])
          THEN LET r == Applied(p, chunk)
               IN Deliver(p, r.emit, FALSE) /\ SetCell(p, r)
          ELSE UNCHANGED <<sides, outputs, wants, enqueued, cells>>
  /\ UNCHANGED <<layout, kinds, params, feeds, sinks, runs>>
  /\ UNCHANGED <<mergeVars, stageVars, intervalVars, iterableVars>>

\* The writable side of q is closed: the runtime calls flush(controller), then
\* closes the readable side.
CloseSink(q) ==
  /\ sinks' = [sinks EXCEPT ![q].state = "closed"]
  /\ LET r == FlushedOf(q)
     IN Deliver(q, r.emit, TRUE) /\ SetCell(q, r)

\* The source of p ends and its pipe closes p once the last write is done.
FeedClose(p) ==
  /\ Up(p) = 0 /\ feeds[p].state = "open"
  /\ HasRoom(p)
  /\ feeds' = [feeds EXCEPT ![p].state = "closed"]
  /\ CloseSink(p)
  /\ UNCHANGED <<layout, kinds, params, calling, runs>>
  /\ UNCHANGED <<mergeVars, stageVars, intervalVars, iterableVars>>

\* The writable side of p was errored (terminate(), or a cancel from below):
\* the pipe cancels the source.
FeedCancel(p) ==
  /\ Up(p) = 0 /\ feeds[p].state = "open"
  /\ sinks[p].state = "errored"
  /\ feeds' = [feeds EXCEPT ![p].state = "cancelled"]
  /\ UNCHANGED <<layout, kinds, params, cells, sinks, calling, sides, wants,
                 outputs, enqueued, runs>>
  /\ UNCHANGED <<mergeVars, stageVars, intervalVars, iterableVars>>

\* The pipe from p into the next instance hands on a chunk p enqueued.
PipeMove(p) ==
  /\ Down(p) # 0
  /\ sides[p].state = "readable" /\ sides[p].queue # <<>>
  /\ HasRoom(Down(p))
  /\ sinks' = [sinks EXCEPT ![Down(p)].queue = Append(@, Head(sides[p].queue))]
  /\ sides' = [sides EXCEPT ![p] =
                 IF Len(@.queue) = 1 /\ @.closeRequested
                 THEN [@ EXCEPT !.queue = <<>>, !.state = "closed"]
                 ELSE [@ EXCEPT !.queue = Tail(@)]]
  /\ UNCHANGED <<layout, kinds, params, cells, feeds, calling, wants, outputs,
                 enqueued, runs>>
  /\ UNCHANGED <<mergeVars, stageVars, intervalVars, iterableVars>>

\* The readable side of p is closed and everything read from it is written:
\* the pipe closes the next instance.
PipeEnd(p) ==
  /\ Down(p) # 0
  /\ sides[p].state = "closed"
  /\ HasRoom(Down(p))
  /\ CloseSink(Down(p))
  /\ UNCHANGED <<layout, kinds, params, feeds, calling, runs>>
  /\ UNCHANGED <<mergeVars, stageVars, intervalVars, iterableVars>>

\* The writable side of the next instance was errored: the pipe cancels the
\* readable side of p, which errors p's writable side.
PipeBack(p) ==
  /\ Down(p) # 0
  /\ sinks[Down(p)].state = "errored"
  /\ sides[p].state = "readable"
  /\ sides' = [sides EXCEPT ![p] = [@ EXCEPT !.state = "closed", !.queue = <<>>]]
  /\ sinks' = [sinks EXCEPT ![p] =
                 IF @.state = "writable" THEN [state |-> "errored", queue |-> <<>>]
                 ELSE @]
  /\ UNCHANGED <<layout, kinds, params, cells, feeds, calling, wants, outputs,
                 enqueued, runs>>
  /\ UNCHANGED <<mergeVars, stageVars, intervalVars, iterableVars>>

\* The consumer of p (toArray) reads: it takes a queued chunk, or leaves a
\* read() pending.
TailRead(p) ==
  /\ Down(p) = 0
  /\ sides[p].state = "readable" /\ ~wants[p]
  /\ IF sides[p].queue # <<>>
     THEN /\ outputs' = [outputs EXCEPT ![p] = Append(@, Head(sides[p].queue))]
          /\ sides' = [sides EXCEPT ![p] =
                         IF Len(@.queue) = 1 /\ @.closeRequested
                         THEN [@ EXCEPT !.queue = <<>>, !.state = "closed"]
                         ELSE [@ EXCEPT !.queue = Tail(@)]]
          /\ UNCHANGED wants
     ELSE /\ wants' = [wants EXCEPT ![p] = TRUE]
          /\ UNCHANGED <<outputs, sides>>
  /\ UNCHANGED <<layout, kinds, params, cells, feeds, sinks, calling, enqueued, runs>>
  /\ UNCHANGED <<mergeVars, stageVars, intervalVars, iterableVars>>

NextPipelines ==
  \/ \E p \in Instances : FeedWrite(p)
  \/ \E p \in Instances : StageTransform(p)
  \/ \E p \in Instances : StageCall(p)
  \/ \E p \in Instances : StageResolve(p)
  \/ \E p \in Instances : FeedClose(p)
  \/ \E p \in Instances : FeedCancel(p)
  \/ \E p \in Instances : PipeMove(p)
  \/ \E p \in Instances : PipeEnd(p)
  \/ \E p \in Instances : PipeBack(p)
  \/ \E p \in Instances : TailRead(p)

SpecPipelines == InitPipelines /\ [][NextPipelines]_vars

\* A finite input ends, toArray keeps reading, and the pipes and transforms
\* are promise jobs: whatever step is ready is eventually taken.
SpecPipelinesFair == SpecPipelines /\ WF_vars(NextPipelines)

\* What the pipeline of instance p, run alone on the chunks 1..n its stage has
\* processed, has enqueued: take(k) the first k, skip(k) all but the first k,
\* batch(n) the full groups of n in order and, once the input closed, the
\* shorter rest.
AloneOutput(p) ==
  LET n == runs[p]
      k == params[p]
      closed == sinks[p].state = "closed"
      full == [j \in 1..(n \div k) |-> [i \in 1..k |-> (j - 1) * k + i]]
      rest == [i \in 1..(n % k) |-> (n \div k) * k + i]
  IN CASE kinds[p] = "take" -> Input(Min(k, n))
       [] kinds[p] = "skip" -> SubSeq(Input(n), Min(k, n) + 1, n)
       [] kinds[p] = "batch" -> IF closed /\ rest # <<>> THEN Append(full, rest) ELSE full

\* A step in which instance p ran its transform or its flush.
Acted(p) == runs'[p] # runs[p] \/ (sinks[p].state = "writable" /\ sinks'[p].state = "closed")

\* C22: of two independently constructed take(k), skip(k) or batch(n) stages
\* running in interleaved pipelines, each has enqueued, and handed to its
\* consumer in that order, exactly what it would alone on the chunks it has
\* processed, and a step in which one of them processes a chunk or flushes
\* leaves the closure state (counter, buffer) of the other unchanged.
C22_PerInstanceState ==
  /\ [](layout = "pair" =>
          \A p \in Instances :
            /\ enqueued[p] = AloneOutput(p)
            /\ outputs[p] \o sides[p].queue = enqueued[p])
  /\ [][layout = "pair" =>
          \A p, q \in Instances :
            (p # q /\ Acted(p)) => cells'[CellOf(q)] = cells[CellOf(q)]]_vars

\* Two skip(2) stages interleaved, one two chunks ahead of the other: the first
\* has skipped two chunks and forwarded the third, the second has skipped one.
C22_Witness ==
  /\ layout = "pair" /\ kinds = <<"skip", "skip">> /\ params = <<2, 2>>
  /\ runs = <<3, 1>>
  /\ cells[CellOf(1)].skipped = 2 /\ cells[CellOf(2)].skipped = 1
  /\ outputs = <<(<<3>>), (<<>>)>>

\* The single pass over the input 1..n: going through it in order, keep at
\* most the first k items satisfying the predicate, each transformed by fn.
SinglePass(n, k) ==
  LET kept == SelectSeq(Input(n), predicate)
      mapped == [i \in 1..Len(kept) |-> fn(kept[i])]
  IN SubSeq(mapped, 1, Min(k, Len(mapped)))

IsPrefix(s, t) == Len(s) <= Len(t) /\ s = SubSeq(t, 1, Len(s))

\* The inputs the source of the chain may hold, given what it delivered so far:
\* exactly that when it was read to its end, anything that begins with it when
\* it was cancelled.
ChainInputs ==
  IF feeds[1].state = "closed" THEN {feeds[1].sent}
  ELSE feeds[1].sent..(MaxLen + 1)

\* C21: filter(p), then map(f), then take(k) over a finite input enqueues, and
\* hands to its consumer in that order, a prefix of what the single pass over
\* the input gives; once its output is closed it has given exactly that; and
\* its output is eventually closed with all of it handed over.
C21_ChainIsSinglePass ==
  /\ [](layout = "chain" =>
          /\ outputs[3] \o sides[3].queue = enqueued[3]
          /\ \A n \in ChainInputs : IsPrefix(enqueued[3], SinglePass(n, params[3]))
          /\ sides[3].closeRequested =>
               \A n \in ChainInputs : enqueued[3] = SinglePass(n, params[3]))
  /\ (layout = "chain") ~>
       (/\ layout = "chain"
        /\ sides[3].state = "closed"
        /\ \A n \in ChainInputs : outputs[3] = SinglePass(n, params[3]))

\* Over 1, 2, 3, 4 with take(2): 2 and 4 pass the filter, are doubled, and the
\* second one ends the stream; the source was cancelled.
C21_Witness ==
  /\ layout = "chain" /\ params[3] = 2
  /\ feeds[1].state = "cancelled" /\ feeds[1].sent = 4
  /\ sides[3].state = "closed"
  /\ outputs[3] = <<4, 8>>

====
